---- MODULE Spec2Model ----
(***************************************************************************)
(* cargo-play: the option model (Options::parse on top of the clap 2       *)
(* argument parser that the structopt attributes of `Options` configure)   *)
(* and the identity deriver (Options::src_hash / temp_dirname).            *)
(*                                                                         *)
(* Strings are sequences of one-character strings, so that starts_with,    *)
(* skip(1), splitting at '/' and byte-wise ordering are computed.          *)
(***************************************************************************)
EXTENDS Integers, Sequences, FiniteSets, TLC

VARIABLES
    fs,       \* the file system: kind of every node (none / file / dir)
    argv,     \* the raw argument list of the last call of Options::parse
    result,   \* what the last call (parse or with_files) produced
    kept      \* a Configuration the caller kept from an earlier call

vars == <<fs, argv, result, kept>>

\* ------------------------------------------------------------- bounds

\* longest raw argument list handed to Options::parse
MaxArgs == 5
\* longest list handed to Options::with_files
MaxFiles == 2

\* ------------------------------------------------------------- strings

None == <<>>
Some(x) == <<x>>

\* str::starts_with(char)
starts_with(s, c) == Len(s) > 0 /\ s[1] = c

\* mutation: the leading character is kept
skip1_kept(s) == s

\* String::from_iter(s.chars().skip(1))
skip1(s) == SubSeq(s, 2, Len(s))

RECURSIVE SplitRec(_, _, _, _)
SplitRec(s, sep, cur, acc) ==
    IF s = <<>> THEN Append(acc, cur)
    ELSE IF Head(s) = sep THEN SplitRec(Tail(s), sep, <<>>, Append(acc, cur))
    ELSE SplitRec(Tail(s), sep, Append(cur, Head(s)), acc)

\* the pieces of s between the occurrences of sep
Split(s, sep) == SplitRec(s, sep, <<>>, <<>>)

RECURSIVE Concat(_)
\* the concatenation of a sequence of strings
Concat(ss) == IF ss = <<>> THEN <<>> ELSE Head(ss) \o Concat(Tail(ss))

\* the elements of a sequence
Range(s) == {s[i] : i \in 1..Len(s)}

\* the sequences over S of length at most n
SeqsUpTo(S, n) == UNION {[1..k -> S] : k \in 0..n}

\* the byte of an (ASCII) character
Code(c) ==
    CASE c = "+" -> 43 [] c = "-" -> 45 [] c = "." -> 46 [] c = "/" -> 47
      [] c = "a" -> 97 [] c = "b" -> 98 [] c = "c" -> 99
      [] OTHER -> 120

\* str::as_bytes of a text
as_bytes(s) == [i \in 1..Len(s) |-> Code(s[i])]

RECURSIVE BytesLess(_, _)
\* lexicographic order of two byte strings (Ord for OsStr)
BytesLess(x, y) ==
    IF y = <<>> THEN FALSE
    ELSE IF x = <<>> THEN TRUE
    ELSE IF Head(x) < Head(y) THEN TRUE
    ELSE IF Head(y) < Head(x) THEN FALSE
    ELSE BytesLess(Tail(x), Tail(y))

\* ------------------------------------------------------------- file system

A == <<"a">>
B == <<"b">>

\* the nodes the file system may hold, each a list of components: /a /b /a/b
Nodes == {<<A>>, <<B>>, <<A, B>>}

Kinds == {"none", "file", "dir"}

\* the working directory of the process: /a
Cwd == <<A>>

KindOf(f, node) ==
    IF node = <<>> THEN "dir"
    ELSE IF node \in DOMAIN f THEN f[node] ELSE "none"

Parent(node) == IF node = <<>> THEN <<>> ELSE SubSeq(node, 1, Len(node) - 1)

\* the text of an absolute, canonical path
RECURSIVE Text(_)
Text(node) ==
    IF node = <<>> THEN <<>> ELSE <<"/">> \o Head(node) \o Text(Tail(node))

PathText(node) == IF node = <<>> THEN <<"/">> ELSE Text(node)

Failed == [ok |-> FALSE, path |-> <<>>]

RECURSIVE Resolve(_, _, _)
\* realpath's walk: cur is the node reached so far, rest the pieces still to take
Resolve(f, cur, rest) ==
    IF rest = <<>> THEN [ok |-> TRUE, path |-> PathText(cur)]
    ELSE IF KindOf(f, cur) # "dir" THEN Failed
    ELSE LET c == Head(rest) IN
        IF c = <<>> \/ c = <<".">> THEN Resolve(f, cur, Tail(rest))
        ELSE IF c = <<".", ".">> THEN Resolve(f, Parent(cur), Tail(rest))
        ELSE IF KindOf(f, Append(cur, c)) = "none" THEN Failed
        ELSE Resolve(f, Append(cur, c), Tail(rest))

\* std::fs::canonicalize / Path::canonicalize
canonicalize(f, raw) ==
    IF raw = <<>> THEN Failed
    ELSE IF starts_with(raw, "/") THEN Resolve(f, <<>>, Split(raw, "/"))
    ELSE Resolve(f, Cwd, Split(raw, "/"))

\* the node a canonical text names
NodeOf(text) == SelectSeq(Split(text, "/"), LAMBDA c : c # <<>>)

\* Path::is_file: the path resolves to a regular file
is_file(f, raw) ==
    LET r == canonicalize(f, raw) IN r.ok /\ KindOf(f, NodeOf(r.path)) = "file"

\* mutation: the path is checked but handed on as it was given
osstr_to_abspath_raw(f, v) == [ok |-> canonicalize(f, v).ok, path |-> v]

\* osstr_to_abspath: Ok(canonical path) or Err(the text given)
osstr_to_abspath(f, v) ==
    LET r == canonicalize(f, v) IN
    IF r.ok THEN [ok |-> TRUE, path |-> r.path] ELSE [ok |-> FALSE, path |-> v]

\* file_exist: Ok(()) when the path is a regular file
file_exist(f, v) == is_file(f, v)

\* ------------------------------------------------------------- RustEdition

Editions == {"E2015", "E2018", "E2021"}

T2015 == <<"2", "0", "1", "5">>
T2016 == <<"2", "0", "1", "6">>
T2018 == <<"2", "0", "1", "8">>
T2021 == <<"2", "0", "2", "1">>

\* RustEdition::from_str
from_str(s) ==
    IF s = T2015 THEN [ok |-> TRUE, edition |-> "E2015", err |-> None]
    ELSE IF s = T2018 THEN [ok |-> TRUE, edition |-> "E2018", err |-> None]
    ELSE IF s = T2021 THEN [ok |-> TRUE, edition |-> "E2021", err |-> None]
    ELSE [ok |-> FALSE, edition |-> "", err |-> Some([kind |-> "InvalidEdition", text |-> s])]

\* impl Default for RustEdition
RustEdition_default == "E2021"

\* ------------------------------------------------------------- Options

\* Options::default(): #[derive(Default)] with RustEdition::default()
Options_default ==
    [debug |-> FALSE, clean |-> FALSE, mode |-> None, test |-> FALSE,
     check |-> FALSE, expand |-> FALSE, toolchain |-> None, src |-> <<>>,
     edition |-> RustEdition_default, release |-> FALSE, cached |-> FALSE,
     quiet |-> FALSE, verbose |-> 0, stdin |-> FALSE, cargo_option |-> None,
     save |-> None, infer |-> FALSE, args |-> <<>>]

RECURSIVE FilterMapCanon(_, _)
\* src.into_iter().filter_map(|x| std::fs::canonicalize(x).ok()).collect()
FilterMapCanon(f, src) ==
    IF src = <<>> THEN <<>>
    ELSE LET r == canonicalize(f, Head(src)) IN
         (IF r.ok THEN <<r.path>> ELSE <<>>) \o FilterMapCanon(f, Tail(src))

\* Options::with_files
with_files(f, src) == [Options_default EXCEPT !.src = FilterMapCanon(f, src)]

\* Options::with_toolchain
with_toolchain(self, toolchain) == [self EXCEPT !.toolchain = toolchain]

\* ------------------------------------------------------------- identity

\* Path::components of an absolute path: the names after the root
Components(p) ==
    SelectSeq(Split(p, "/"), LAMBDA c : c # <<>> /\ c # <<".">>)

RECURSIVE CompsLess(_, _)
\* Ord for Path: the component lists compared lexicographically
CompsLess(x, y) ==
    IF y = <<>> THEN FALSE
    ELSE IF x = <<>> THEN TRUE
    ELSE IF BytesLess(as_bytes(Head(x)), as_bytes(Head(y))) THEN TRUE
    ELSE IF BytesLess(as_bytes(Head(y)), as_bytes(Head(x))) THEN FALSE
    ELSE CompsLess(Tail(x), Tail(y))

PathLess(p, q) == CompsLess(Components(p), Components(q))

RECURSIVE InsertSorted(_, _)
\* x placed behind every element that is not greater than it (a stable sort)
InsertSorted(x, s) ==
    IF s = <<>> THEN <<x>>
    ELSE IF PathLess(x, Head(s)) THEN <<x>> \o s
    ELSE <<Head(s)>> \o InsertSorted(x, Tail(s))

RECURSIVE SortFrom(_, _)
SortFrom(s, acc) ==
    IF s = <<>> THEN acc ELSE SortFrom(Tail(s), InsertSorted(Head(s), acc))

\* mutation: the paths are hashed in the order given
sort_skipped(s) == s

\* srcs.sort()
sort(s) == SortFrom(s, <<>>)

\* Sha1: hash.update(..) for every chunk, then finalize(). The digest is taken as
\* collision-free: it is a tag on the bytes fed to it, in the order fed
Sha1(chunks) == <<"sha1", Concat(chunks)>>

\* bs58::encode(..).into_string(): one-to-one on digests
bs58_encode(digest) == <<"bs58", digest>>

\* what the loop of src_hash feeds to the digest: file.to_string_lossy().as_bytes()
HashInput(srcs) == [i \in 1..Len(srcs) |-> as_bytes(srcs[i])]

\* Options::src_hash
src_hash(self) == bs58_encode(Sha1(HashInput(sort(self.src))))

\* Options::temp_dirname
temp_dirname(self) == <<"cargo-play.", src_hash(self)>>

\* ------------------------------------------------------------- clap: the App

\* the switches of Options (bool and from_occurrences fields), with clap's
\* automatic --help and --version
ClapFlags ==
    {"debug", "clean", "test", "check", "expand", "release", "cached", "quiet",
     "verbose", "stdin", "infer", "help", "version"}

\* the options of Options that take a value
ClapOpts == {"mode", "toolchain", "edition", "cargo_option", "save"}

\* the positionals: src (index 1) and args (index 2, last = true)
ArgNames == ClapFlags \cup ClapOpts \cup {"src", "args"}

\* long = "..." of every argument
Long ==
    [debug |-> <<"d", "e", "b", "u", "g">>,
     clean |-> <<"c", "l", "e", "a", "n">>,
     mode |-> <<"m", "o", "d", "e">>,
     test |-> <<"t", "e", "s", "t">>,
     check |-> <<"c", "h", "e", "c", "k">>,
     expand |-> <<"e", "x", "p", "a", "n", "d">>,
     toolchain |-> <<"t", "o", "o", "l", "c", "h", "a", "i", "n">>,
     edition |-> <<"e", "d", "i", "t", "i", "o", "n">>,
     release |-> <<"r", "e", "l", "e", "a", "s", "e">>,
     cached |-> <<"c", "a", "c", "h", "e", "d">>,
     quiet |-> <<"q", "u", "i", "e", "t">>,
     verbose |-> <<"v", "e", "r", "b", "o", "s", "e">>,
     stdin |-> <<"s", "t", "d", "i", "n">>,
     cargo_option |-> <<"c", "a", "r", "g", "o", "-", "o", "p", "t", "i", "o", "n">>,
     save |-> <<"s", "a", "v", "e">>,
     infer |-> <<"i", "n", "f", "e", "r">>,
     help |-> <<"h", "e", "l", "p">>,
     version |-> <<"v", "e", "r", "s", "i", "o", "n">>]

\* short = "..." of every argument ("" when it has none)
Short ==
    [debug |-> "d", clean |-> "c", mode |-> "m", test |-> "", check |-> "", expand |-> "", toolchain |-> "t", edition |-> "e", release |-> "", cached |-> "", quiet |-> "q", verbose |-> "v", stdin |-> "", cargo_option |-> "", save |-> "", infer |-> "i", help |-> "h", version |-> "V"]

\* the arguments that may occur more than once
Multiple == {"verbose", "src", "args"}

\* group = "modegroup"
modegroup == {"mode", "test", "check", "expand"}

\* mutation: 2016 is let through as a possible value
possible_values_wide == {T2015, T2016, T2018, T2021}

\* possible_values of edition
possible_values == {T2015, T2018, T2021}

\* default_value of edition
default_value == T2021

\* ------------------------------------------------------------- clap: the matcher

NoErr == [kind |-> "none", arg |-> "", text |-> <<>>]
Err(k, a, t) == [kind |-> k, arg |-> a, text |-> t]

\* ArgMatcher::new(), with the parser's TrailingValues flag and needs_val_of
NewMatcher ==
    [occ |-> [n \in ArgNames |-> 0], vals |-> [n \in ArgNames |-> <<>>],
     trailing |-> FALSE, needs |-> "NotFound", err |-> NoErr]

AddVal(m, n, v) == [m EXCEPT !.vals[n] = Append(@, v)]
IncOcc(m, n) == [m EXCEPT !.occ[n] = @ + 1]

\* ArgMatcher::contains
Present(m, n) == m.occ[n] > 0 \/ m.vals[n] # <<>>

RECURSIVE TrimLeft(_, _)
\* trim_left_matches(c)
TrimLeft(s, c) == IF starts_with(s, c) THEN TrimLeft(Tail(s), c) ELSE s

RECURSIVE Before(_, _)
\* the part of s before the first c
Before(s, c) ==
    IF s = <<>> \/ Head(s) = c THEN <<>> ELSE <<Head(s)>> \o Before(Tail(s), c)

\* the part of s from the first c on
From(s, c) == SubSeq(s, Len(Before(s, c)) + 1, Len(s))

\* Parser::is_new_arg (no argument allows a leading hyphen)
is_new_arg(m, tok) ==
    IF m.needs = "ValuesDone" THEN TRUE
    ELSE IF starts_with(tok, "-") /\ starts_with(Tail(tok), "-") THEN TRUE
    ELSE IF starts_with(tok, "-") THEN Len(tok) # 1
    ELSE FALSE

\* Parser::parse_flag
parse_flag(m, n) == [IncOcc(m, n) EXCEPT !.needs = "Flag"]

\* Parser::parse_opt: val is the value attached to the token, if any
parse_opt(m, n, val) ==
    IF val # None
    THEN [IncOcc(AddVal(m, n, TrimLeft(Head(val), "=")), n) EXCEPT !.needs = "ValuesDone"]
    ELSE [IncOcc(m, n) EXCEPT !.needs = n]

\* Parser::check_for_help_and_version_str / _char
HelpOrVersion(m, n, tok) ==
    IF n = "help" THEN [m EXCEPT !.err = Err("HelpDisplayed", n, tok)]
    ELSE [m EXCEPT !.err = Err("VersionDisplayed", n, tok)]

\* Parser::parse_long_arg
parse_long_arg(m, tok) ==
    LET full == TrimLeft(tok, "-")
        arg  == Before(full, "=")
        val  == IF "=" \in Range(full) THEN Some(From(full, "=")) ELSE None
    IN  IF \E o \in ClapOpts : Long[o] = arg
        THEN parse_opt(m, CHOOSE o \in ClapOpts : Long[o] = arg, val)
        ELSE IF \E n \in ClapFlags : Long[n] = arg
        THEN LET n == CHOOSE n \in ClapFlags : Long[n] = arg IN
             IF n \in {"help", "version"} THEN HelpOrVersion(m, n, tok)
             ELSE parse_flag(m, n)
        ELSE [m EXCEPT !.err = Err("UnknownArgument", "", tok)]

RECURSIVE ShortLoop(_, _, _, _)
\* the loop of Parser::parse_short_arg over the characters of the token
ShortLoop(m, tok, arg, i) ==
    IF i > Len(arg) THEN m
    ELSE LET c == arg[i] IN
        IF \E o \in ClapOpts : Short[o] = c
        THEN parse_opt(m, CHOOSE o \in ClapOpts : Short[o] = c,
                       IF i # Len(arg) THEN Some(SubSeq(arg, i + 1, Len(arg))) ELSE None)
        ELSE IF \E n \in ClapFlags : Short[n] = c
        THEN LET n == CHOOSE n \in ClapFlags : Short[n] = c IN
             IF n \in {"help", "version"} THEN HelpOrVersion(m, n, tok)
             ELSE ShortLoop(parse_flag(m, n), tok, arg, i + 1)
        ELSE [m EXCEPT !.err = Err("UnknownArgument", "", <<"-", c>>)]

\* Parser::parse_short_arg
parse_short_arg(m, tok) == ShortLoop(m, tok, TrimLeft(tok, "-"), 1)

\* the positional branch of the loop: src before the separator, args behind it
\* (ContainsLast and TrailingValues move the counter to the last positional)
parse_positional(m, tok) ==
    IF m.trailing THEN IncOcc(AddVal(m, "args", tok), "args")
    ELSE IncOcc(AddVal(m, "src", tok), "src")

\* one turn of the loop of Parser::get_matches_with
ParseToken(m, tok) ==
    IF m.err.kind # "none" THEN m
    ELSE IF ~m.trailing /\ tok = <<"-", "-">> /\ is_new_arg(m, tok)
    THEN [m EXCEPT !.trailing = TRUE]
    ELSE IF ~m.trailing /\ is_new_arg(m, tok) /\ starts_with(tok, "-")
            /\ starts_with(Tail(tok), "-")
    THEN parse_long_arg(m, tok)
    ELSE IF ~m.trailing /\ is_new_arg(m, tok) /\ starts_with(tok, "-") /\ Len(tok) # 1
    THEN parse_short_arg(m, tok)
    ELSE IF ~m.trailing /\ ~is_new_arg(m, tok) /\ m.needs \in ClapOpts
    THEN [AddVal(m, m.needs, tok) EXCEPT !.needs = "ValuesDone"]
    ELSE parse_positional(m, tok)

RECURSIVE ParseTokens(_, _)
ParseTokens(m, toks) ==
    IF toks = <<>> THEN m ELSE ParseTokens(ParseToken(m, Head(toks)), Tail(toks))

\* ------------------------------------------------------------- clap: validation

\* Parser::add_defaults: the default value of an argument that got no value
add_defaults(m) ==
    IF m.vals["edition"] = <<>> THEN AddVal(m, "edition", default_value) ELSE m

\* mutation: --stdin no longer excuses the missing src
MissingRequired_always(m) == ~Present(m, "src")

\* required_unless = "stdin": src is missing and nothing excuses it
MissingRequired(m) == ~Present(m, "src") /\ ~Present(m, "stdin")

\* mutation: the group does not make its members exclusive
Conflicting_never(m) == {}

\* Validator::validate_blacklist: the members of a group exclude one another
Conflicting(m) ==
    {n \in modegroup : Present(m, n) /\ \E o \in modegroup \ {n} : Present(m, o)}

\* the first of the values v, in order, that is not among the good ones
FirstBad(v, good) ==
    LET bad == {i \in 1..Len(v) : v[i] \notin good} IN
    IF bad = {} THEN None ELSE Some(v[CHOOSE i \in bad : \A j \in bad : i <= j])

\* validate_arg_values of --edition: possible_values, then the validator that
\* structopt derives from FromStr
EditionErr(m) ==
    LET notPossible == FirstBad(m.vals["edition"], possible_values)
        notParsed   == FirstBad(m.vals["edition"], {v \in Range(m.vals["edition"]) : from_str(v).ok})
    IN  IF notPossible # None THEN Err("InvalidValue", "edition", Head(notPossible))
        ELSE IF notParsed # None THEN Err("ValueValidation", "edition", Head(notParsed))
        ELSE NoErr

\* validate_arg_values of src: validator = file_exist, then the validator that
\* structopt derives from try_from_os_str = osstr_to_abspath
SrcErr(f, m) ==
    LET notFile   == FirstBad(m.vals["src"], {v \in Range(m.vals["src"]) : file_exist(f, v)})
        notCanon  == FirstBad(m.vals["src"], {v \in Range(m.vals["src"]) : osstr_to_abspath(f, v).ok})
    IN  IF notFile # None THEN Err("ValueValidation", "src", Head(notFile))
        ELSE IF notCanon # None THEN Err("ValueValidation", "src", Head(notCanon))
        ELSE NoErr

\* Validator::validate_matched_args for one argument of the matcher
ArgErr(f, m, n) ==
    IF n \in ClapOpts THEN
        IF m.vals[n] = <<>> THEN Err("EmptyValue", n, <<>>)
        ELSE IF n = "edition" /\ EditionErr(m).kind # "none" THEN EditionErr(m)
        ELSE IF m.occ[n] > 1 THEN Err("UnexpectedMultipleUsage", n, <<>>)
        ELSE NoErr
    ELSE IF n \in ClapFlags THEN
        IF m.occ[n] > 1 /\ n \notin Multiple
        THEN Err("UnexpectedMultipleUsage", n, <<>>) ELSE NoErr
    ELSE IF n = "src" THEN SrcErr(f, m)
    ELSE NoErr

\* the errors validate_matched_args may end with: it walks the matcher, a hash
\* map, in no fixed order and stops at the first argument in error
MatchedErrs(f, m) ==
    {ArgErr(f, m, n) : n \in {x \in ArgNames : Present(m, x)}} \ {NoErr}

\* Validator::validate: the errors it may end with (none: the matches stand)
Validate(f, m0) ==
    LET m == add_defaults(m0)
        conflicts == {Err("ArgumentConflict", n, <<>>) : n \in Conflicting(m)}
        required  == {Err("MissingRequiredArgument", "src", <<>>)}
    IN  IF m.needs \in ClapOpts /\ MissingRequired(m) THEN required
        ELSE IF m.needs \in ClapOpts /\ m.vals[m.needs] = <<>>
        THEN {Err("EmptyValue", m.needs, <<>>)}
        ELSE IF conflicts # {} THEN conflicts
        ELSE IF MissingRequired(m) THEN required
        ELSE MatchedErrs(f, m)

\* whether validation got as far as the values, where the file system is read
ReadsFiles(m0) ==
    LET m == add_defaults(m0) IN
    /\ m.err.kind = "none"
    /\ ~(m.needs \in ClapOpts /\ (MissingRequired(m) \/ m.vals[m.needs] = <<>>))
    /\ Conflicting(m) = {}
    /\ ~MissingRequired(m)
    /\ m.vals["src"] # <<>>

\* Option<String> from ArgMatches::value_of
value_of(m, n) == IF m.vals[n] = <<>> THEN None ELSE Some(m.vals[n][1])

\* StructOpt::from_clap for Options
from_clap(f, m0) ==
    LET m == add_defaults(m0) IN
    [debug |-> Present(m, "debug"), clean |-> Present(m, "clean"),
     mode |-> value_of(m, "mode"), test |-> Present(m, "test"),
     check |-> Present(m, "check"), expand |-> Present(m, "expand"),
     toolchain |-> value_of(m, "toolchain"),
     src |-> [i \in 1..Len(m.vals["src"]) |-> osstr_to_abspath(f, m.vals["src"][i]).path],
     edition |-> from_str(m.vals["edition"][1]).edition,
     release |-> Present(m, "release"), cached |-> Present(m, "cached"),
     quiet |-> Present(m, "quiet"), verbose |-> m.occ["verbose"],
     stdin |-> Present(m, "stdin"), cargo_option |-> value_of(m, "cargo_option"),
     save |-> value_of(m, "save"), infer |-> Present(m, "infer"),
     args |-> m.vals["args"]]

\* App::get_matches_from: the first item is the name of the binary
get_matches(stream) ==
    ParseTokens(NewMatcher, IF stream = <<>> THEN <<>> ELSE Tail(stream))

\* ------------------------------------------------------------- Options::parse

\* mutation: the help path is taken with two tokens as well
TooFew_three(args) == Len(args) < 3

\* args.len() < 2
TooFew(args) == Len(args) < 2

\* args[1] == "play"
with_cargo(args) == args[2] = <<"p", "l", "a", "y">>

\* mutation: the last override wins
find_toolchain_last(rest) ==
    LET hits == {i \in 1..Len(rest) : starts_with(rest[i], "+")} IN
    IF hits = {} THEN None
    ELSE Some(skip1(rest[CHOOSE i \in hits : \A j \in hits : i >= j]))

\* args.clone().find(|x| x.starts_with('+')).map(|s| String::from_iter(s.chars().skip(1)))
find_toolchain(rest) ==
    LET hits == {i \in 1..Len(rest) : starts_with(rest[i], "+")} IN
    IF hits = {} THEN None
    ELSE Some(skip1(rest[CHOOSE i \in hits : \A j \in hits : i <= j]))

\* args.filter(|x| !x.starts_with('+'))
filter_plus(rest) == SelectSeq(rest, LAMBDA x : ~starts_with(x, "+"))

\* what the file system held at every entry of src when the entry was made
Seen(f, src) == [p \in Range(src) |-> KindOf(f, NodeOf(p))]

NoResult ==
    [kind |-> "None", via |-> "none", opts |-> Options_default, err |-> NoErr,
     stream |-> <<>>, helpPrinted |-> FALSE, parserRan |-> FALSE, fsReads |-> {},
     seen |-> <<>>]

\* Options::parse: the outcomes the call may have. "NoOp" is Err(()) after the
\* usage help, "Ok" a Configuration, "Exit" the end of the process in
\* StructOpt::from_iter (clap prints the error, or the help, and exits)
parse(f, args) ==
    IF TooFew(args)
    THEN {[NoResult EXCEPT !.kind = "NoOp", !.via = "parse", !.helpPrinted = TRUE]}
    ELSE LET rest      == IF with_cargo(args) THEN Tail(args) ELSE args
             toolchain == find_toolchain(rest)
             stream    == filter_plus(rest)
             m         == get_matches(stream)
             errs      == IF m.err.kind # "none" THEN {m.err} ELSE Validate(f, m)
             ran       == [NoResult EXCEPT !.via = "parse", !.stream = stream,
                              !.parserRan = TRUE,
                              !.fsReads = IF ReadsFiles(m) THEN Range(m.vals["src"]) ELSE {}]
         IN  IF errs = {}
             THEN LET o == with_toolchain(from_clap(f, m), toolchain) IN
                  {[ran EXCEPT !.kind = "Ok", !.opts = o, !.seen = Seen(f, o.src)]}
             ELSE {[ran EXCEPT !.kind = "Exit", !.err = e,
                       !.helpPrinted = (e.kind = "HelpDisplayed")] : e \in errs}

\* ------------------------------------------------------------- tokens

tCargoPlay == <<"c", "a", "r", "g", "o", "-", "p", "l", "a", "y">>
tPlay == <<"p", "l", "a", "y">>
tNightly == <<"+", "n", "i", "g", "h", "t", "l", "y">>
tStable == <<"+", "s", "t", "a", "b", "l", "e">>
tTest == <<"-", "-", "t", "e", "s", "t">>
tCheck == <<"-", "-", "c", "h", "e", "c", "k">>
tExpand == <<"-", "-", "e", "x", "p", "a", "n", "d">>
tMode == <<"-", "-", "m", "o", "d", "e">>
tRun == <<"r", "u", "n">>
tBogus == <<"-", "-", "b", "o", "g", "u", "s">>
tHelp == <<"-", "-", "h", "e", "l", "p">>
tSep == <<"-", "-">>
tStdin == <<"-", "-", "s", "t", "d", "i", "n">>
tEdition == <<"-", "-", "e", "d", "i", "t", "i", "o", "n">>
tEditionEq2016 == <<"-", "-", "e", "d", "i", "t", "i", "o", "n", "=", "2", "0", "1", "6">>
tToolchainFlag == <<"-", "t">>
tVerbose == <<"-", "v", "v">>
tX == <<"x">>
pA == <<"/", "a">>
pB == <<"/", "b">>
pRel == <<"b">>
pDots == <<"/", "a", "/", ".", ".", "/", "b">>
pC == <<"/", "c">>

\* ------------------------------------------------------------- actions

\* a call of Options::parse with one of the raw argument lists: main calls it
\* once, when the process starts
Parse(lists) ==
    /\ result.kind = "None"
    /\ \E a \in lists :
          /\ argv' = a
          /\ result' \in parse(fs, a)
    /\ UNCHANGED <<fs, kept>>

\* a call of Options::with_files with one of the lists of paths
WithFiles(lists) ==
    /\ result.kind = "None"
    /\ \E src \in lists :
          result' = [NoResult EXCEPT !.kind = "Ok", !.via = "with_files",
                        !.opts = with_files(fs, src),
                        !.fsReads = Range(src),
                        !.seen = Seen(fs, with_files(fs, src).src)]
    /\ UNCHANGED <<fs, argv, kept>>

\* the caller keeps the Configuration it was given
Keep ==
    /\ result.kind = "Ok"
    /\ kept' = [kind |-> "Ok", via |-> result.via, opts |-> result.opts]
    /\ UNCHANGED <<fs, argv, result>>

\* the process ends and the next one starts; what the caller kept outlives it
Restart ==
    /\ result.kind # "None"
    /\ result' = NoResult
    /\ argv' = <<>>
    /\ UNCHANGED <<fs, kept>>

\* the environment removes a file or an empty directory
Remove(n) ==
    /\ fs[n] # "none"
    /\ \A c \in Nodes : Parent(c) = n => fs[c] = "none"
    /\ fs' = [fs EXCEPT ![n] = "none"]
    /\ UNCHANGED <<argv, result, kept>>

\* the environment creates a regular file
CreateFile(n) ==
    /\ fs[n] = "none"
    /\ KindOf(fs, Parent(n)) = "dir"
    /\ fs' = [fs EXCEPT ![n] = "file"]
    /\ UNCHANGED <<argv, result, kept>>

\* the environment creates a directory
MakeDir(n) ==
    /\ fs[n] = "none"
    /\ KindOf(fs, Parent(n)) = "dir"
    /\ fs' = [fs EXCEPT ![n] = "dir"]
    /\ UNCHANGED <<argv, result, kept>>

\* the raw argument lists: a program name, then up to MaxArgs - 1 tokens of vocab
ArgLists(progs, vocab) ==
    {<<>>} \cup {<<p>> \o t : p \in progs, t \in SeqsUpTo(vocab, MaxArgs - 1)}

\* /a is a directory (the working directory) holding the file b; /b is a file
Init ==
    /\ fs = [n \in Nodes |-> IF n = <<A>> THEN "dir" ELSE "file"]
    /\ argv = <<>>
    /\ result = NoResult
    /\ kept = [kind |-> "None", via |-> "none", opts |-> Options_default]

\* ------------------------------------------------------------- specifications

Progs == {tCargoPlay}

\* mode selection: the group members, a value, a file, and the tokens that end
\* the parse early
VocabModes == {tTest, tCheck, tExpand, tMode, tRun, tBogus, tHelp, tSep, pB}

NextModes ==
    \/ Parse(ArgLists(Progs, VocabModes))
    \/ Restart

SpecModes == Init /\ [][NextModes]_vars

\* the toolchain override: the `play` form, two overrides, the hidden -t flag
VocabToolchain == {tPlay, tNightly, tStable, tToolchainFlag, tX, tSep, tStdin, pB}

NextToolchain ==
    \/ Parse(ArgLists(Progs, VocabToolchain))
    \/ Restart

SpecToolchain == Init /\ [][NextToolchain]_vars

\* the trailing arguments
VocabArgs == {tSep, tNightly, tX, tTest, tVerbose, tStdin, tBogus, pB}

NextArgs ==
    \/ Parse(ArgLists(Progs, VocabArgs))
    \/ Restart

SpecArgs == Init /\ [][NextArgs]_vars

\* the input files: a file, a directory, a missing file, a relative name
VocabInput == {tStdin, tTest, tCheck, tBogus, tHelp, tSep, pB, pA, pC}

NextInput ==
    \/ Parse(ArgLists(Progs, VocabInput))
    \/ Restart

SpecInput == Init /\ [][NextInput]_vars

\* the edition
VocabEdition == {tEdition, tEditionEq2016, T2016, T2018, tStdin, tBogus, tSep, pB, pC}

NextEdition ==
    \/ Parse(ArgLists(Progs, VocabEdition))
    \/ Restart

SpecEdition == Init /\ [][NextEdition]_vars

\* the identity: Configurations made by parse and by with_files, one of them
\* kept, in a file system that changes between the calls
VocabPaths == {pA, pB, pRel, pDots}

NextHash ==
    \/ Parse({<<tCargoPlay>> \o t : t \in SeqsUpTo(VocabPaths, MaxFiles)})
    \/ WithFiles(SeqsUpTo(VocabPaths, MaxFiles))
    \/ Keep
    \/ Restart
    \/ \E n \in Nodes : Remove(n)
    \/ \E n \in Nodes : CreateFile(n)
    \/ \E n \in Nodes : MakeDir(n)

SpecHash == Init /\ [][NextHash]_vars

\* ------------------------------------------------------------- reading argv

\* the name an override token carries
tNightlyName == <<"n", "i", "g", "h", "t", "l", "y">>

Dash(t) == Len(t) > 0 /\ t[1] = "-"
Plus(t) == Len(t) > 0 /\ t[1] = "+"

\* the raw arguments behind the program name
Given == IF argv = <<>> THEN <<>> ELSE SubSeq(argv, 2, Len(argv))

\* the raw arguments once the `play` form has lost its first token
Remaining == IF Len(argv) >= 2 /\ argv[2] = tPlay THEN Given ELSE argv

\* the positions of the separator among the raw arguments behind the program name
SepAt == {i \in 1..Len(Given) : Given[i] = tSep}
FirstSep == CHOOSE i \in SepAt : \A j \in SepAt : i <= j

\* the raw arguments in front of the separator, and those behind it
FlagPart == IF SepAt = {} THEN Given ELSE SubSeq(Given, 1, FirstSep - 1)
Trailing == IF SepAt = {} THEN <<>> ELSE SubSeq(Given, FirstSep + 1, Len(Given))

Returned == result.via = "parse" /\ result.kind = "Ok"
Exited == result.via = "parse" /\ result.kind = "Exit"

\* ------------------------------------------------------------- C6

\* C6: with fewer than two raw tokens parse prints the usage help and returns the
\* no-op signal, with no Configuration, without running the flag parser and
\* without reading the file system; with two or more tokens it never takes that
\* path.
C6_HelpNoOp ==
    result.via = "parse" =>
        /\ Len(argv) < 2 =>
              /\ result.kind = "NoOp"
              /\ result.helpPrinted
              /\ ~result.parserRan
              /\ result.fsReads = {}
              /\ result.opts = Options_default
        /\ Len(argv) >= 2 => result.kind \in {"Ok", "Exit"} /\ result.parserRan

C6_Witness == result.via = "parse" /\ argv = <<tCargoPlay>> /\ result.kind = "NoOp"

\* ------------------------------------------------------------- C3

ModeTokens == {tTest, tCheck, tExpand, tMode}

\* two or more different mode flags are supplied
TwoModes == Cardinality(Range(FlagPart) \cap ModeTokens) >= 2

ModesSet(o) ==
    {k \in {"mode", "test", "check", "expand"} :
        IF k = "mode" THEN o.mode # None
        ELSE IF k = "test" THEN o.test
        ELSE IF k = "check" THEN o.check
        ELSE o.expand}

\* the flag parser reads the flags to their end: no token it does not know, no
\* request for the help, and no --mode left waiting for its value at the end
ModesReadToEnd ==
    /\ tBogus \notin Range(FlagPart)
    /\ tHelp \notin Range(FlagPart)
    /\ FlagPart # <<>> => FlagPart[Len(FlagPart)] # tMode

\* C3 as stated: two or more of --mode, --test, --check, --expand always fail with
\* the conflicting-mode error, and a returned Configuration has at most one set.
C3_AlwaysConflict ==
    result.via = "parse" /\ Len(argv) >= 2 =>
        /\ TwoModes => result.kind = "Exit" /\ result.err.kind = "ArgumentConflict"
        /\ result.kind = "Ok" => Cardinality(ModesSet(result.opts)) <= 1

\* C3 (amended): two or more of --mode, --test, --check, --expand never yield a
\* Configuration; the failure is the conflicting-mode error whenever the parser
\* reads the flags to their end; a returned Configuration has at most one set.
C3_NeverReturned ==
    result.via = "parse" /\ Len(argv) >= 2 =>
        /\ TwoModes => result.kind = "Exit"
        /\ TwoModes /\ ModesReadToEnd => result.err.kind = "ArgumentConflict"
        /\ result.kind = "Ok" => Cardinality(ModesSet(result.opts)) <= 1

C3_Witness ==
    /\ Exited /\ TwoModes /\ ModesReadToEnd
    /\ tMode \in Range(FlagPart) /\ pB \in Range(FlagPart)
    /\ result.err.kind = "ArgumentConflict"

\* ------------------------------------------------------------- C7

\* no positional source file is given (no option of this vocabulary takes a value)
ZeroPositional == \A i \in 1..Len(FlagPart) : Dash(FlagPart[i])
StdinGiven == tStdin \in Range(FlagPart)

Count(toks, t) == Cardinality({i \in 1..Len(toks) : toks[i] = t})

\* nothing else is wrong with the flags
InputFlagsFine ==
    /\ tBogus \notin Range(FlagPart)
    /\ tHelp \notin Range(FlagPart)
    /\ ~(tTest \in Range(FlagPart) /\ tCheck \in Range(FlagPart))

NoFlagTwice == \A t \in {tStdin, tTest, tCheck} : Count(FlagPart, t) <= 1

\* C7 as stated: no positional file and no --stdin always fails with the
\* missing-input error; --stdin and no positional file succeeds with an empty src.
C7_AlwaysMissing ==
    result.via = "parse" /\ Len(argv) >= 2 =>
        /\ ZeroPositional /\ ~StdinGiven =>
              result.kind = "Exit" /\ result.err.kind = "MissingRequiredArgument"
        /\ ZeroPositional /\ StdinGiven => result.kind = "Ok" /\ result.opts.src = <<>>

\* C7 (amended): no positional file and no --stdin never yields a Configuration,
\* and fails with the missing-input error when nothing else is wrong with the
\* flags (no unrecognized flag, no help request, no conflicting modes); --stdin
\* and no positional file succeeds with an empty src when nothing else is wrong
\* and no flag is repeated.
C7_MissingInput ==
    result.via = "parse" /\ Len(argv) >= 2 =>
        /\ ZeroPositional /\ ~StdinGiven => result.kind = "Exit"
        /\ ZeroPositional /\ ~StdinGiven /\ InputFlagsFine =>
              result.err.kind = "MissingRequiredArgument" /\ result.err.arg = "src"
        /\ ZeroPositional /\ StdinGiven /\ InputFlagsFine /\ NoFlagTwice =>
              result.kind = "Ok" /\ result.opts.src = <<>> /\ result.opts.stdin

C7_Witness ==
    \/ /\ Exited /\ argv = <<tCargoPlay, tTest, tSep, pB>>
       /\ result.err.kind = "MissingRequiredArgument"
    \/ /\ Returned /\ argv = <<tCargoPlay, tTest, tStdin>> /\ result.opts.src = <<>>

\* ------------------------------------------------------------- C8

ValidEditions == {T2015, T2018, T2021}

\* the values --edition is given, in order: the token behind each --edition that
\* is not itself a flag, and the text behind --edition=
EditionValueAt(i) ==
    IF FlagPart[i] = tEditionEq2016 THEN Some(T2016)
    ELSE IF FlagPart[i] = tEdition /\ i < Len(FlagPart) /\ ~Dash(FlagPart[i + 1])
    THEN Some(FlagPart[i + 1])
    ELSE None

BadEditionAt == {i \in 1..Len(FlagPart) :
                    EditionValueAt(i) # None /\ Head(EditionValueAt(i)) \notin ValidEditions}

FirstBadEdition == Head(EditionValueAt(CHOOSE i \in BadEditionAt : \A j \in BadEditionAt : i <= j))

EditionGiven == \E i \in 1..Len(FlagPart) : FlagPart[i] \in {tEdition, tEditionEq2016}

\* the positional source files: the tokens that are neither flags nor the value
\* of an --edition
SourceAt == {i \in 1..Len(FlagPart) :
                /\ ~Dash(FlagPart[i])
                /\ ~(i > 1 /\ FlagPart[i - 1] = tEdition)}

\* nothing else is wrong: every flag is known and given once, an input is given
\* and every source file given is a regular file
EditionRestFine ==
    /\ tBogus \notin Range(FlagPart)
    /\ Count(FlagPart, tStdin) <= 1
    /\ SourceAt # {} \/ tStdin \in Range(FlagPart)
    /\ \A i \in SourceAt : FlagPart[i] = pB

EditionInvalidError(e) ==
    e.kind = "InvalidValue" /\ e.arg = "edition" /\ e.text = FirstBadEdition

\* C8 as stated: an --edition value outside {2015, 2018, 2021} always fails with
\* the invalid-edition error carrying the text; a returned Configuration's edition
\* is one of the three and is 2021 when --edition is not given.
C8_AlwaysInvalidEdition ==
    result.via = "parse" /\ Len(argv) >= 2 =>
        /\ BadEditionAt # {} => result.kind = "Exit" /\ EditionInvalidError(result.err)
        /\ result.kind = "Ok" =>
              /\ result.opts.edition \in Editions
              /\ ~EditionGiven => result.opts.edition = "E2021"

\* C8 (amended): an --edition value outside {2015, 2018, 2021} never yields a
\* Configuration, and fails with the invalid-edition error carrying the text when
\* nothing else is wrong with the arguments (every flag known and given once, an
\* input given, every source file a regular file); RustEdition::from_str refuses every
\* other text with InvalidEdition(text); a returned Configuration's edition is one
\* of the three and is 2021 when --edition is not given.
C8_InvalidEdition ==
    /\ \A v \in VocabEdition :
          v \notin ValidEditions =>
              from_str(v).err = Some([kind |-> "InvalidEdition", text |-> v])
    /\ result.via = "parse" /\ Len(argv) >= 2 =>
          /\ BadEditionAt # {} => result.kind = "Exit"
          /\ BadEditionAt # {} /\ EditionRestFine => EditionInvalidError(result.err)
          /\ result.kind = "Ok" =>
                /\ result.opts.edition \in Editions
                /\ ~EditionGiven => result.opts.edition = "E2021"
                /\ EditionGiven /\ T2018 \in Range(FlagPart)
                      => result.opts.edition \in {"E2018", "E2021"}

C8_Witness ==
    /\ Exited /\ argv = <<tCargoPlay, tEdition, T2016, pB>>
    /\ result.err = [kind |-> "InvalidValue", arg |-> "edition", text |-> T2016]

\* ------------------------------------------------------------- C4, C10

\* the override tokens among the raw arguments that parse scans
PlusTokens == SelectSeq(Remaining, Plus)

\* the stream without its override tokens is what the flag parser is handed
HandedOver == result.stream = SelectSeq(Remaining, LAMBDA t : ~Plus(t))

\* C4 as stated: a raw list of at least two tokens with `+nightly` at any position
\* has that token removed from the flag parser's stream and yields toolchain
\* "nightly"; with no token starting with `+` the toolchain is absent.
C4_NightlyAnywhere ==
    result.via = "parse" /\ Len(argv) >= 2 =>
        /\ tNightly \in Range(argv) =>
              /\ tNightly \notin Range(result.stream)
              /\ result.kind = "Ok" => result.opts.toolchain = Some(tNightlyName)
        /\ (\A i \in 1..Len(argv) : ~Plus(argv[i])) /\ result.kind = "Ok" =>
              result.opts.toolchain = None

\* C4 (amended): when `+nightly` is the first token starting with `+` among the
\* raw arguments parse scans (all of them, or all but the first in the `play`
\* form), it is removed from the flag parser's stream and the Configuration has
\* toolchain "nightly"; with no such token the toolchain is absent, whatever -t
\* was given.
C4_NightlyFirst ==
    result.via = "parse" /\ Len(argv) >= 2 =>
        /\ HandedOver
        /\ PlusTokens # <<>> /\ Head(PlusTokens) = tNightly =>
              /\ tNightly \notin Range(result.stream)
              /\ result.kind = "Ok" => result.opts.toolchain = Some(tNightlyName)
        /\ PlusTokens = <<>> /\ result.kind = "Ok" => result.opts.toolchain = None

C4_Witness ==
    /\ Returned /\ argv = <<tCargoPlay, tPlay, pB, tNightly, tStable>>
    /\ result.opts.toolchain = Some(tNightlyName)
    /\ result.stream = <<tPlay, pB>>

SeveralOverrides == Len(PlusTokens) >= 2

\* C10 as stated: with several tokens starting with `+`, all are removed before
\* generic parsing and the toolchain is the one of the last such token.
C10_LastWins ==
    result.via = "parse" /\ Len(argv) >= 2 /\ SeveralOverrides =>
        /\ \A i \in 1..Len(result.stream) : ~Plus(result.stream[i])
        /\ result.kind = "Ok" =>
              result.opts.toolchain = Some(Tail(PlusTokens[Len(PlusTokens)]))

\* C10 (amended): with several tokens starting with `+`, all are removed before
\* generic parsing and the toolchain is the one of the first such token.
C10_FirstWins ==
    result.via = "parse" /\ Len(argv) >= 2 /\ SeveralOverrides =>
        /\ \A i \in 1..Len(result.stream) : ~Plus(result.stream[i])
        /\ result.kind = "Ok" => result.opts.toolchain = Some(Tail(PlusTokens[1]))

C10_Witness ==
    /\ Returned /\ SeveralOverrides
    /\ PlusTokens[1] = tStable /\ PlusTokens[Len(PlusTokens)] = tNightly
    /\ result.opts.toolchain = Some(Tail(tStable))

\* ------------------------------------------------------------- C5

\* C5: the tokens behind the `--` separator are the Configuration's args,
\* unchanged, in order, none dropped, whatever they begin with.
C5_TrailingVerbatim ==
    result.via = "parse" /\ result.kind = "Ok" /\ SepAt # {} =>
        result.opts.args = Trailing

\* what the code does instead: the tokens behind the separator that do not start
\* with `+`, in order
C5_TrailingWithoutPlus ==
    result.via = "parse" /\ result.kind = "Ok" /\ SepAt # {} =>
        result.opts.args = SelectSeq(Trailing, LAMBDA t : ~Plus(t))

\* ------------------------------------------------------------- C1, C2

BothMade == kept.kind = "Ok" /\ result.kind = "Ok"

\* how often p occurs in the sequence s
Occurs(s, p) == Cardinality({i \in 1..Len(s) : s[i] = p})

\* the two sequences hold the same paths the same number of times
SamePaths(s, t) == \A p \in Range(s) \cup Range(t) : Occurs(s, p) = Occurs(t, p)

\* C1 as stated: two Configurations whose src hold the same set of canonical
\* paths, in any order, have the same identifier and the same work directory name.
C1_SameSetSameId ==
    BothMade /\ Range(kept.opts.src) = Range(result.opts.src) =>
        /\ src_hash(kept.opts) = src_hash(result.opts)
        /\ temp_dirname(kept.opts) = temp_dirname(result.opts)

\* C1 (amended): two Configurations whose src hold the same canonical paths, each
\* the same number of times, in any order, have the same identifier and the same
\* work directory name.
C1_SamePathsSameId ==
    BothMade /\ SamePaths(kept.opts.src, result.opts.src) =>
        /\ src_hash(kept.opts) = src_hash(result.opts)
        /\ temp_dirname(kept.opts) = temp_dirname(result.opts)

C1_Witness ==
    /\ BothMade /\ kept.via = "parse" /\ result.via = "parse"
    /\ kept.opts.src = <<PathText(<<B>>), PathText(<<A, B>>)>>
    /\ result.opts.src = <<PathText(<<A, B>>), PathText(<<B>>)>>
    /\ src_hash(kept.opts) = src_hash(result.opts)

\* C2: two Configurations whose sets of source paths differ have different
\* identifiers (the digest taken as collision-free).
C2_DifferentSetDifferentId ==
    BothMade /\ Range(kept.opts.src) # Range(result.opts.src) =>
        src_hash(kept.opts) # src_hash(result.opts)

\* ------------------------------------------------------------- C9

\* the text of an absolute path in canonical form: a `/` in front of every
\* component, no empty, `.` or `..` component
CanonicalText(p) ==
    /\ Len(p) >= 2 /\ p[1] = "/" /\ p[Len(p)] # "/"
    /\ \A i \in 1..(Len(p) - 1) : ~(p[i] = "/" /\ p[i + 1] = "/")
    /\ \A c \in Range(Split(p, "/")) : c # <<".">> /\ c # <<".", ".">>

\* C9 as stated: every entry of src, made by parse or by with_files, is an
\* absolute canonical path that existed and was a regular file when validated.
C9_EveryEntryFile ==
    result.kind = "Ok" =>
        \A i \in 1..Len(result.opts.src) :
            /\ CanonicalText(result.opts.src[i])
            /\ result.seen[result.opts.src[i]] = "file"

\* C9 (amended): every entry of src, made by parse or by with_files, is an
\* absolute canonical path that existed when the entry was made; the entries
\* made by parse were regular files then, those made by with_files regular files
\* or directories.
C9_EveryEntryExisted ==
    result.kind = "Ok" =>
        \A i \in 1..Len(result.opts.src) :
            /\ CanonicalText(result.opts.src[i])
            /\ result.seen[result.opts.src[i]] \in {"file", "dir"}
            /\ result.via = "parse" => result.seen[result.opts.src[i]] = "file"

C9_Witness ==
    /\ Returned /\ argv = <<tCargoPlay, pRel, pB>>
    /\ result.opts.src = <<PathText(<<A, B>>), PathText(<<B>>)>>

====
